---------------------------- MODULE Spec2Model ----------------------------
(***************************************************************************)
(* Model of tools/execfmt_support/check_bins.py: the ELF header serializer *)
(* gen_headers and the driver that compares five fixture files against the *)
(* bytes it expects.                                                       *)
(*                                                                         *)
(* Python integers are unbounded, and the fields reach 2^32 and 2^64, so   *)
(* an integer is modelled as a sign and a magnitude: a record              *)
(* [neg, mag] with mag the little-endian base-256 digits, no high zeros.   *)
(* A byte string is a sequence of 0..255.                                  *)
(***************************************************************************)
EXTENDS Integers, Sequences, FiniteSets, TLC

(***************************************************************************)
(* Bounds of the model.                                                    *)
(***************************************************************************)
\* instruction lengths 0..MaxInstrLen are tried by the serializer's callers
MaxInstrLen == 12
\* a tampered byte is old + d (mod 256) for d in 1..MaxDelta
MaxDelta == 3

(***************************************************************************)
(* Python int: arithmetic on sign and magnitude.                           *)
(***************************************************************************)
RECURSIVE Digits(_)
Digits(n) == IF n = 0 THEN <<>> ELSE <<n % 256>> \o Digits(n \div 256)

RECURSIVE Norm(_)
Norm(m) ==
    IF m = <<>> THEN <<>>
    ELSE IF m[Len(m)] = 0 THEN Norm(SubSeq(m, 1, Len(m) - 1))
    ELSE m

MkInt(neg, mag) ==
    LET m == Norm(mag) IN [neg |-> (neg /\ m # <<>>), mag |-> m]

\* the Python int written as the literal n
PyInt(n) == IF n < 0 THEN MkInt(TRUE, Digits(0 - n)) ELSE MkInt(FALSE, Digits(n))

RECURSIVE MagAdd(_, _, _)
MagAdd(x, y, c) ==
    IF x = <<>> /\ y = <<>>
    THEN (IF c = 0 THEN <<>> ELSE <<c>>)
    ELSE LET a == IF x = <<>> THEN 0 ELSE Head(x)
             b == IF y = <<>> THEN 0 ELSE Head(y)
             s == a + b + c
         IN  <<s % 256>> \o MagAdd(IF x = <<>> THEN <<>> ELSE Tail(x),
                                   IF y = <<>> THEN <<>> ELSE Tail(y),
                                   s \div 256)

\* x < y for normalised magnitudes
RECURSIVE MagLess(_, _)
MagLess(x, y) ==
    IF Len(x) # Len(y) THEN Len(x) < Len(y)
    ELSE IF x = <<>> THEN FALSE
    ELSE IF x[Len(x)] # y[Len(y)] THEN x[Len(x)] < y[Len(y)]
    ELSE MagLess(SubSeq(x, 1, Len(x) - 1), SubSeq(y, 1, Len(y) - 1))

\* x - y - b for magnitudes with x >= y + b
RECURSIVE MagSub(_, _, _)
MagSub(x, y, b) ==
    IF x = <<>> THEN <<>>
    ELSE LET s == Head(x) - (IF y = <<>> THEN 0 ELSE Head(y)) - b
         IN  <<(s + 256) % 256>> \o MagSub(Tail(x),
                                          IF y = <<>> THEN <<>> ELSE Tail(y),
                                          IF s < 0 THEN 1 ELSE 0)

\* a + b on Python ints
Add(a, b) ==
    IF a.neg = b.neg THEN MkInt(a.neg, MagAdd(a.mag, b.mag, 0))
    ELSE IF MagLess(a.mag, b.mag) THEN MkInt(b.neg, MagSub(b.mag, a.mag, 0))
    ELSE MkInt(a.neg, MagSub(a.mag, b.mag, 0))

\* a - b on Python ints
Sub(a, b) == Add(a, MkInt(~b.neg, b.mag))

\* 1 << k on Python ints
Shl1(k) == MkInt(FALSE, [i \in 1..(k \div 8) + 1 |->
                            IF i = (k \div 8) + 1 THEN 2 ^ (k % 8) ELSE 0])

\* a | b for two Python ints below 256 with no common bits (the flag masks)
BitOr(a, b) == Add(a, b)

(***************************************************************************)
(* int.to_bytes(length, byteorder): the unsigned encoding, or the error    *)
(* Python raises when the value is negative or does not fit.               *)
(***************************************************************************)
\* the outcome of a call: the value it returns, or the exception it raises
Return(v) == [raised |-> FALSE, val |-> v]
Raise(e) == [raised |-> TRUE, val |-> e]

Reverse(s) == [i \in 1..Len(s) |-> s[Len(s) + 1 - i]]

Zeros(n) == [i \in 1..n |-> 0]

\* mutant: a value that does not fit wraps modulo 256^length, and the sign
\* of a negative value is dropped
to_bytes_wrap(val, length, byteorder) ==
    LET m  == val.mag \o Zeros(length)
        le == SubSeq(m, 1, length)
    IN  Return(IF byteorder = "big" THEN Reverse(le) ELSE le)

to_bytes(val, length, byteorder) ==
    IF val.neg \/ Len(val.mag) > length THEN Raise("OverflowError")
    ELSE LET le == val.mag \o Zeros(length - Len(val.mag))
         IN  Return(IF byteorder = "big" THEN Reverse(le) ELSE le)

(***************************************************************************)
(* gen_headers                                                             *)
(***************************************************************************)
LOAD_ADDR == 65536

\* values dependent on ELF size
EHDR_SIZE(is64bit) == IF is64bit THEN 64 ELSE 52
PHTB_SIZE(is64bit) == IF is64bit THEN 56 ELSE 32
ADDR_SIZE(is64bit) == IF is64bit THEN 8 ELSE 4
\* combined header size
HEADER_SIZE(is64bit) == EHDR_SIZE(is64bit) + PHTB_SIZE(is64bit)

\* mutant: the byte order is always little-endian
int_encode_little(val, length, be) == to_bytes(val, length, "little")

\* internal helper function to serialize integer values into bytes
int_encode(val, length, be) ==
    to_bytes(val, length, IF be THEN "big" ELSE "little")

\* e_ident: magic, class, data encoding, version, OS ABI, ABI version, padding
e_ident(is64bit, be) ==
    <<127, 69, 76, 70>>
        \o <<IF is64bit THEN 2 ELSE 1>>
        \o <<IF be THEN 2 ELSE 1>>
        \o <<1>>
        \o <<0, 0>>
        \o Zeros(7)

Field(name, val, len) == [name |-> name, val |-> val, len |-> len]

\* mutant: the entry point is put right after the EHDR
ehdr_fields_entry(target_id, is64bit, flags) ==
    << Field("e_type", PyInt(2), 2),
       Field("e_machine", target_id, 2),
       Field("e_version", PyInt(1), 4),
       Field("e_entry", Add(PyInt(LOAD_ADDR), PyInt(EHDR_SIZE(is64bit))),
             ADDR_SIZE(is64bit)),
       Field("e_phoff", PyInt(EHDR_SIZE(is64bit)), ADDR_SIZE(is64bit)),
       Field("e_shoff", PyInt(0), ADDR_SIZE(is64bit)),
       Field("e_flags", flags, 4),
       Field("e_ehsize", PyInt(EHDR_SIZE(is64bit)), 2),
       Field("e_phentsize", PyInt(PHTB_SIZE(is64bit)), 2),
       Field("e_phnum", PyInt(1), 2),
       Field("e_shentsize", PyInt(0), 2),
       Field("e_shnum", PyInt(0), 2),
       Field("e_shstrndx", PyInt(0), 2) >>

\* the int_encode calls of the EHDR after e_ident, in the order they are made
ehdr_fields(target_id, is64bit, flags) ==
    << Field("e_type", PyInt(2), 2),
       Field("e_machine", target_id, 2),
       Field("e_version", PyInt(1), 4),
       Field("e_entry", Add(PyInt(LOAD_ADDR), PyInt(HEADER_SIZE(is64bit))),
             ADDR_SIZE(is64bit)),
       Field("e_phoff", PyInt(EHDR_SIZE(is64bit)), ADDR_SIZE(is64bit)),
       Field("e_shoff", PyInt(0), ADDR_SIZE(is64bit)),
       Field("e_flags", flags, 4),
       Field("e_ehsize", PyInt(EHDR_SIZE(is64bit)), 2),
       Field("e_phentsize", PyInt(PHTB_SIZE(is64bit)), 2),
       Field("e_phnum", PyInt(1), 2),
       Field("e_shentsize", PyInt(0), 2),
       Field("e_shnum", PyInt(0), 2),
       Field("e_shstrndx", PyInt(0), 2) >>

\* mutant: p_flags is emitted after p_type in the 32-bit layout as well
phdr_fields_flags_twice(instr_len, is64bit) ==
    << Field("p_type", PyInt(1), 4),
       Field("p_flags", BitOr(Shl1(0), Shl1(2)), 4),
       Field("p_offset", PyInt(0), ADDR_SIZE(is64bit)),
       Field("p_vaddr", PyInt(LOAD_ADDR), ADDR_SIZE(is64bit)),
       Field("p_paddr", PyInt(0), ADDR_SIZE(is64bit)),
       Field("p_filesz", Add(PyInt(HEADER_SIZE(is64bit)), instr_len),
             ADDR_SIZE(is64bit)),
       Field("p_memsz", Add(PyInt(HEADER_SIZE(is64bit)), instr_len),
             ADDR_SIZE(is64bit)) >>
        \o (IF ~is64bit
            THEN << Field("p_flags", BitOr(Shl1(0), Shl1(2)), 4) >>
            ELSE << >>)
        \o << Field("p_align", PyInt(2), ADDR_SIZE(is64bit)) >>

\* mutant: p_flags follows p_type in both layouts
phdr_fields_flags_first(instr_len, is64bit) ==
    << Field("p_type", PyInt(1), 4),
       Field("p_flags", BitOr(Shl1(0), Shl1(2)), 4),
       Field("p_offset", PyInt(0), ADDR_SIZE(is64bit)),
       Field("p_vaddr", PyInt(LOAD_ADDR), ADDR_SIZE(is64bit)),
       Field("p_paddr", PyInt(0), ADDR_SIZE(is64bit)),
       Field("p_filesz", Add(PyInt(HEADER_SIZE(is64bit)), instr_len),
             ADDR_SIZE(is64bit)),
       Field("p_memsz", Add(PyInt(HEADER_SIZE(is64bit)), instr_len),
             ADDR_SIZE(is64bit)),
       Field("p_align", PyInt(2), ADDR_SIZE(is64bit)) >>

\* mutant: p_align is the address size
phdr_fields_align(instr_len, is64bit) ==
    << Field("p_type", PyInt(1), 4) >>
        \o (IF is64bit
            THEN << Field("p_flags", BitOr(Shl1(0), Shl1(2)), 4) >>
            ELSE << >>)
        \o << Field("p_offset", PyInt(0), ADDR_SIZE(is64bit)),
              Field("p_vaddr", PyInt(LOAD_ADDR), ADDR_SIZE(is64bit)),
              Field("p_paddr", PyInt(0), ADDR_SIZE(is64bit)),
              Field("p_filesz", Add(PyInt(HEADER_SIZE(is64bit)), instr_len),
                    ADDR_SIZE(is64bit)),
              Field("p_memsz", Add(PyInt(HEADER_SIZE(is64bit)), instr_len),
                    ADDR_SIZE(is64bit)) >>
        \o (IF ~is64bit
            THEN << Field("p_flags", BitOr(Shl1(0), Shl1(2)), 4) >>
            ELSE << >>)
        \o << Field("p_align", PyInt(ADDR_SIZE(is64bit)), ADDR_SIZE(is64bit)) >>

\* the int_encode calls of the PHDR entry, in the order they are made
phdr_fields(instr_len, is64bit) ==
    << Field("p_type", PyInt(1), 4) >>
        \o (IF is64bit
            THEN << Field("p_flags", BitOr(Shl1(0), Shl1(2)), 4) >>
            ELSE << >>)
        \o << Field("p_offset", PyInt(0), ADDR_SIZE(is64bit)),
              Field("p_vaddr", PyInt(LOAD_ADDR), ADDR_SIZE(is64bit)),
              Field("p_paddr", PyInt(0), ADDR_SIZE(is64bit)),
              Field("p_filesz", Add(PyInt(HEADER_SIZE(is64bit)), instr_len),
                    ADDR_SIZE(is64bit)),
              Field("p_memsz", Add(PyInt(HEADER_SIZE(is64bit)), instr_len),
                    ADDR_SIZE(is64bit)) >>
        \o (IF ~is64bit
            THEN << Field("p_flags", BitOr(Shl1(0), Shl1(2)), 4) >>
            ELSE << >>)
        \o << Field("p_align", PyInt(2), ADDR_SIZE(is64bit)) >>

Fields(target_id, instr_len, is64bit, flags) ==
    ehdr_fields(target_id, is64bit, flags) \o phdr_fields(instr_len, is64bit)

RECURSIVE Concat(_)
Concat(ss) == IF ss = <<>> THEN <<>> ELSE Head(ss) \o Concat(Tail(ss))

\* ret after the last "ret +=": e_ident followed by the encoded fields; an
\* exception raised by an int_encode call propagates to the caller
join(ident, enc) ==
    IF \E i \in 1..Len(enc) : enc[i].raised
    THEN enc[CHOOSE i \in 1..Len(enc) :
                enc[i].raised /\ \A j \in 1..(i - 1) : ~enc[j].raised]
    ELSE Return(ident \o Concat([i \in 1..Len(enc) |-> enc[i].val]))

serialize(ident, F, be) ==
    join(ident, [i \in 1..Len(F) |-> int_encode(F[i].val, F[i].len, be)])

\* Return the bytes of the ELF header and program header table
gen_headers(target_id, instr_len, is64bit, be, flags) ==
    serialize(e_ident(is64bit, be),
              Fields(target_id, instr_len, is64bit, flags), be)

(***************************************************************************)
(* The machine code of the five architectures.                             *)
(***************************************************************************)
ARM64_INSTRUCTIONS ==
    <<\ha8, \h0b, \h80, \h52>> \o <<\h00, \h00, \h80, \hd2>>
        \o <<\h01, \h00, \h00, \hd4>>

I386_INSTRUCTIONS ==
    <<\h6a, \h01>> \o <<\h58>> \o <<\h31, \hd2>> \o <<\hcd, \h80>>

RISCV64_INSTRUCTIONS ==
    <<\h93, \h08, \hd0, \h05>> \o <<\h01, \h45>> \o <<\h73, \h00, \h00, \h00>>

S390X_INSTRUCTIONS ==
    <<\ha7, \h29, \h00, \h00>> \o <<\h0a, \h01>>

X86_64_INSTRUCTIONS ==
    <<\h6a, \h3c>> \o <<\h58>> \o <<\h31, \hff>> \o <<\h0f, \h05>>

(***************************************************************************)
(* The driver: the five blocks of the script, in the order they are run.   *)
(***************************************************************************)
Order == <<"arm64", "i386", "riscv64", "s390x", "x86_64">>

Archs == {Order[i] : i \in 1..Len(Order)}

\* the arguments of the gen_headers call of each block, and its instructions
Block(a) ==
    CASE a = "arm64" ->
            [target_id |-> PyInt(183), is64bit |-> TRUE, be |-> FALSE,
             flags |-> PyInt(0), instr |-> ARM64_INSTRUCTIONS]
      [] a = "i386" ->
            [target_id |-> PyInt(3), is64bit |-> FALSE, be |-> FALSE,
             flags |-> PyInt(0), instr |-> I386_INSTRUCTIONS]
      [] a = "riscv64" ->
            [target_id |-> PyInt(243), is64bit |-> TRUE, be |-> FALSE,
             flags |-> PyInt(5), instr |-> RISCV64_INSTRUCTIONS]
      [] a = "s390x" ->
            [target_id |-> PyInt(22), is64bit |-> TRUE, be |-> TRUE,
             flags |-> PyInt(0), instr |-> S390X_INSTRUCTIONS]
      [] a = "x86_64" ->
            [target_id |-> PyInt(62), is64bit |-> TRUE, be |-> FALSE,
             flags |-> PyInt(0), instr |-> X86_64_INSTRUCTIONS]

\* headers + instructions, unless the call of gen_headers raised
plus_instr(h, instr) == IF h.raised THEN h ELSE Return(h.val \o instr)

expected_of(b) ==
    plus_instr(gen_headers(b.target_id, PyInt(Len(b.instr)), b.is64bit, b.be,
                           b.flags),
               b.instr)

\* expected_<a>_bytes = gen_headers(...) + <A>_INSTRUCTIONS
expected_bytes(a) == expected_of(Block(a))

\* bytes.hex()
HexDigit == <<"0", "1", "2", "3", "4", "5", "6", "7",
              "8", "9", "a", "b", "c", "d", "e", "f">>

RECURSIVE hex(_)
hex(b) ==
    IF b = <<>> THEN ""
    ELSE IF Len(b) = 1
    THEN HexDigit[(b[1] \div 16) + 1] \o HexDigit[(b[1] % 16) + 1]
    ELSE LET h == Len(b) \div 2
         IN  hex(SubSeq(b, 1, h)) \o hex(SubSeq(b, h + 1, Len(b)))

MismatchLine(a) ==
    CASE a = "arm64" -> "MISMATCH! arm64_bytes != expected_arm64_bytes"
      [] a = "i386" -> "MISMATCH! i386_bytes != expected_i386_bytes"
      [] a = "riscv64" -> "MISMATCH! riscv64_bytes != expected_riscv64_bytes"
      [] a = "s390x" -> "MISMATCH! s390x_bytes != expected_s390x_bytes"
      [] a = "x86_64" -> "MISMATCH! x86_64_bytes != expected_x86_64_bytes"

\* what the block of a prints when the comparison fails
Diagnostic(a, got, want) ==
    IF a = "riscv64"
    THEN << MismatchLine(a),
            "expected_riscv64_bytes.hex()='" \o hex(want) \o "'",
            "         riscv64_bytes.hex()='" \o hex(got) \o "'" >>
    ELSE << MismatchLine(a) >>

(***************************************************************************)
(* State.                                                                  *)
(*   disk      the outcome of read_bytes() on each fixture file            *)
(*   fbytes    <a>_bytes, once read                                        *)
(*   expected  expected_<a>_bytes, once built                              *)
(*   bound     the module-level names that have been assigned              *)
(*   fails     the mismatch counter                                        *)
(*   out       the lines printed to standard output                        *)
(*   compared  the fixtures whose comparison has been evaluated, in order  *)
(*   pc        the statement to run next                                   *)
(*   exit      how the process ended                                       *)
(*   args, ret, gpc   one call of gen_headers: arguments, outcome, stage   *)
(***************************************************************************)
VARIABLES disk, fbytes, expected, bound, fails, out, compared, pc, exit,
          args, ret, gpc

vars == <<disk, fbytes, expected, bound, fails, out, compared, pc, exit,
          args, ret, gpc>>

driver_vars == <<disk, fbytes, expected, bound, fails, out, compared, pc, exit>>

call_vars == <<args, ret, gpc>>

BytesName(a) == a \o "_bytes"

ExpectedName(a) == "expected_" \o a \o "_bytes"

\* Path(__file__).parent.joinpath(a).read_bytes()
read_bytes(a) == disk[a]

Running == [via |-> "running", status |-> 0]

(***************************************************************************)
(* The fixture files the driver may find.                                  *)
(***************************************************************************)
Good(a) == expected_bytes(a).val

Missing == Raise("FileNotFoundError")

\* a fixture as shipped, absent, one byte short, or one byte long
VariantsOf(g) ==
    { Return(g), Missing, Return(SubSeq(g, 1, Len(g) - 1)),
      Return(Append(g, 0)) }

Variants(a) == VariantsOf(Good(a))

\* the fixture g with the byte at index i (from 1) changed by d
Tamper(g, i, d) == Return([g EXCEPT ![i] = (@ + d) % 256])

Tampers(g) == {Tamper(g, i, d) : i \in 1..Len(g), d \in 1..MaxDelta}

GoodDisk == [a \in Archs |-> Return(Good(a))]

DiskProduct(V) ==
    { [arm64 |-> v1, i386 |-> v2, riscv64 |-> v3, s390x |-> v4, x86_64 |-> v5] :
        v1 \in V["arm64"], v2 \in V["i386"], v3 \in V["riscv64"],
        v4 \in V["s390x"], v5 \in V["x86_64"] }

\* every fixture independently shipped, absent, short or long
CoarseDisks == DiskProduct([a \in Archs |-> Variants(a)])

OneChanged(good, a, vs) == {[good EXCEPT ![a] = v] : v \in vs}

\* the shipped fixtures with one byte of one of them changed
TamperedDisks ==
    UNION { OneChanged(GoodDisk, a, Tampers(Good(a))) : a \in Archs }

(***************************************************************************)
(* The script.                                                             *)
(***************************************************************************)
NoCall == [target_id |-> PyInt(0), instr_len |-> PyInt(0), is64bit |-> TRUE,
           be |-> FALSE, flags |-> PyInt(0)]

Init ==
    /\ disk \in CoarseDisks \cup TamperedDisks
    /\ fbytes = [a \in Archs |-> <<>>]
    /\ expected = [a \in Archs |-> <<>>]
    /\ bound = {}
    /\ fails = 0
    /\ out = <<>>
    /\ compared = <<>>
    /\ pc = <<"read", 1>>
    /\ exit = Running
    /\ args = NoCall
    /\ ret = Return(<<>>)
    /\ gpc = "unused"

\* an exception nothing catches ends the interpreter with status 1
Uncaught ==
    /\ pc' = <<"aborted", 0>>
    /\ exit' = [via |-> "uncaught", status |-> 1]

\* mutant: a fixture that cannot be read counts as empty
BindBytes_empty(i, r) ==
    /\ fbytes' = [fbytes EXCEPT ![Order[i]] = IF r.raised THEN <<>> ELSE r.val]
    /\ bound' = bound \cup {BytesName(Order[i])}
    /\ pc' = <<"expect", i>>
    /\ UNCHANGED exit

\* <a>_bytes = r, or the exception r propagates
BindBytes(i, r) ==
    IF r.raised
    THEN /\ Uncaught
         /\ UNCHANGED <<fbytes, bound>>
    ELSE /\ fbytes' = [fbytes EXCEPT ![Order[i]] = r.val]
         /\ bound' = bound \cup {BytesName(Order[i])}
         /\ pc' = <<"expect", i>>
         /\ UNCHANGED exit

\* <a>_bytes = Path(__file__).parent.joinpath("<a>").read_bytes()
ReadFixture(i) ==
    /\ pc = <<"read", i>>
    /\ BindBytes(i, read_bytes(Order[i]))
    /\ UNCHANGED <<disk, expected, fails, out, compared, call_vars>>

\* expected_<a>_bytes = e, or the exception e propagates
BindExpected(i, e) ==
    IF e.raised
    THEN /\ Uncaught
         /\ UNCHANGED <<expected, bound>>
    ELSE /\ expected' = [expected EXCEPT ![Order[i]] = e.val]
         /\ bound' = bound \cup {ExpectedName(Order[i])}
         /\ pc' = IF i < Len(Order) THEN <<"read", i + 1>> ELSE <<"fails", 0>>
         /\ UNCHANGED exit

\* expected_<a>_bytes = gen_headers(...) + <A>_INSTRUCTIONS
BuildExpected(i) ==
    /\ pc = <<"expect", i>>
    /\ BindExpected(i, expected_bytes(Order[i]))
    /\ UNCHANGED <<disk, fbytes, fails, out, compared, call_vars>>

\* fails = 0
InitFails ==
    /\ pc = <<"fails", 0>>
    /\ fails' = 0
    /\ bound' = bound \cup {"fails"}
    /\ pc' = <<"cmp", 1>>
    /\ UNCHANGED <<disk, fbytes, expected, out, compared, exit, call_vars>>

\* mutant: only the lengths are compared
differs_len(got, want) == Len(got) # Len(want)

\* <a>_bytes != expected_<a>_bytes
differs(got, want) == got # want

\* mutant: the first mismatch ends the checks
Compare_first_only(i) ==
    /\ pc = <<"cmp", i>>
    /\ compared' = Append(compared, Order[i])
    /\ IF differs(fbytes[Order[i]], expected[Order[i]])
       THEN /\ out' = out \o Diagnostic(Order[i], fbytes[Order[i]],
                                        expected[Order[i]])
            /\ fails' = fails + 1
            /\ pc' = <<"exit", 0>>
       ELSE /\ UNCHANGED <<out, fails>>
            /\ pc' = IF i < Len(Order) THEN <<"cmp", i + 1>> ELSE <<"exit", 0>>
    /\ UNCHANGED <<disk, fbytes, expected, bound, exit, call_vars>>

\* if <a>_bytes != expected_<a>_bytes: print(...); fails += 1
Compare(i) ==
    /\ pc = <<"cmp", i>>
    /\ compared' = Append(compared, Order[i])
    /\ IF differs(fbytes[Order[i]], expected[Order[i]])
       THEN /\ out' = out \o Diagnostic(Order[i], fbytes[Order[i]],
                                        expected[Order[i]])
            /\ fails' = fails + 1
       ELSE UNCHANGED <<out, fails>>
    /\ pc' = IF i < Len(Order) THEN <<"cmp", i + 1>> ELSE <<"exit", 0>>
    /\ UNCHANGED <<disk, fbytes, expected, bound, exit, call_vars>>

\* sys.exit(fails)
Exit ==
    /\ pc = <<"exit", 0>>
    /\ exit' = [via |-> "sys.exit", status |-> fails]
    /\ pc' = <<"done", 0>>
    /\ UNCHANGED <<disk, fbytes, expected, bound, fails, out, compared,
                   call_vars>>

Next ==
    \/ \E i \in 1..Len(Order) : ReadFixture(i)
    \/ \E i \in 1..Len(Order) : BuildExpected(i)
    \/ InitFails
    \/ \E i \in 1..Len(Order) : Compare(i)
    \/ Exit

Spec == Init /\ [][Next]_vars

(***************************************************************************)
(* One call of gen_headers, on arguments from the edges of every field.    *)
(***************************************************************************)
TargetIds == {PyInt(n) : n \in {-1, 0, 3, 22, 62, 183, 243, 65535, 65536}}

FlagValues ==
    {PyInt(-1), PyInt(0), PyInt(5), Sub(Shl1(32), PyInt(1)), Shl1(32)}

InstrLens ==
    {PyInt(n) : n \in 0..MaxInstrLen}
        \cup {PyInt(0 - n) : n \in {1, 84, 85, 120, 121}}
        \cup {Sub(Shl1(32), PyInt(n)) : n \in {84, 85, 120, 121}}
        \cup {Sub(Shl1(64), PyInt(n)) : n \in {120, 121}}
        \cup {Shl1(64)}

GenInit ==
    /\ args \in [target_id : TargetIds, instr_len : InstrLens,
                 is64bit : BOOLEAN, be : BOOLEAN, flags : FlagValues]
    /\ ret = Return(<<>>)
    /\ gpc = "call"
    /\ disk = GoodDisk
    /\ fbytes = [a \in Archs |-> <<>>]
    /\ expected = [a \in Archs |-> <<>>]
    /\ bound = {}
    /\ fails = 0
    /\ out = <<>>
    /\ compared = <<>>
    /\ pc = <<"idle", 0>>
    /\ exit = Running

CallGenHeaders ==
    /\ gpc = "call"
    /\ ret' = gen_headers(args.target_id, args.instr_len, args.is64bit,
                          args.be, args.flags)
    /\ gpc' = IF ret'.raised THEN "raised" ELSE "returned"
    /\ UNCHANGED <<args, driver_vars>>

GenNext == CallGenHeaders

SpecGen == GenInit /\ [][GenNext]_vars

(***************************************************************************)
(* Reading a serialized header back.                                       *)
(***************************************************************************)
\* int.from_bytes(b, byteorder), unsigned
int_decode(b, be) == MkInt(FALSE, IF be THEN Reverse(b) ELSE b)

\* v fits an unsigned field of the given number of bits
InRange(v, bits) == ~v.neg /\ MagLess(v.mag, Shl1(bits).mag)

FieldAt(F, name) == CHOOSE i \in 1..Len(F) : F[i].name = name

RECURSIVE WidthBefore(_, _)
WidthBefore(F, i) == IF i = 1 THEN 0 ELSE F[i - 1].len + WidthBefore(F, i - 1)

\* the offset in the output of the i-th encoded field: e_ident comes first
OffsetOf(F, i) == 16 + WidthBefore(F, i)

Slice(b, off, len) == SubSeq(b, off + 1, off + len)

FieldBytes(b, F, i) == Slice(b, OffsetOf(F, i), F[i].len)

\* the integer stored in the field called name of the header b
Stored(b, F, name, be) == int_decode(FieldBytes(b, F, FieldAt(F, name)), be)

ArgFields == Fields(args.target_id, args.instr_len, args.is64bit, args.flags)

Returned == gpc = "returned"

(***************************************************************************)
(* C2: every call of gen_headers that returns gives exactly 120 bytes      *)
(* (64 + 56) when is64bit is true and exactly 84 bytes (52 + 32) when it   *)
(* is false, whatever target_id, instr_len, flags and be are.              *)
(***************************************************************************)
C2_Length ==
    Returned => Len(ret.val) = (IF args.is64bit THEN 64 + 56 ELSE 52 + 32)

C2_Witness ==
    /\ Returned
    /\ ~args.is64bit /\ args.be
    /\ args.flags = PyInt(5) /\ args.instr_len = PyInt(7)
    /\ Len(ret.val) = 84

(***************************************************************************)
(* C3: gen_headers with be = FALSE and be = TRUE, the other arguments      *)
(* fixed.                                                                  *)
(***************************************************************************)
\* the header the same call returns with the other endianness
Flipped ==
    gen_headers(args.target_id, args.instr_len, args.is64bit, ~args.be,
                args.flags).val

\* every multi-byte field keeps its offsets and has its bytes reversed
FieldsReversed ==
    \A i \in 1..Len(ArgFields) :
        FieldBytes(ret.val, ArgFields, i)
            = Reverse(FieldBytes(Flipped, ArgFields, i))

\* the fields cover everything after e_ident, and each is wider than a byte
FieldsCoverRest ==
    /\ \A i \in 1..Len(ArgFields) : ArgFields[i].len > 1
    /\ OffsetOf(ArgFields, Len(ArgFields)) + ArgFields[Len(ArgFields)].len
            = Len(ret.val)

\* C3 as stated: every multi-byte field occupies the same offsets in both
\* outputs with its bytes reversed, and all 16 bytes of e_ident are the
\* same in both outputs.
C3_AsStated ==
    Returned =>
        /\ Len(Flipped) = Len(ret.val)
        /\ FieldsReversed
        /\ \A k \in 1..16 : ret.val[k] = Flipped[k]

\* C3 amended: every multi-byte field occupies the same offsets in both
\* outputs with its bytes reversed; the bytes of e_ident are the same in
\* both outputs except byte 5 (EI_DATA), which is 1 with be = FALSE and 2
\* with be = TRUE.
C3_Amended ==
    Returned =>
        /\ Len(Flipped) = Len(ret.val)
        /\ FieldsCoverRest
        /\ FieldsReversed
        /\ \A k \in (1..16) \ {6} : ret.val[k] = Flipped[k]
        /\ ret.val[6] = (IF args.be THEN 2 ELSE 1)
        /\ Flipped[6] = (IF args.be THEN 1 ELSE 2)

C3_Witness ==
    /\ Returned
    /\ args.be /\ args.is64bit
    /\ args.target_id = PyInt(243) /\ args.flags = Sub(Shl1(32), PyInt(1))
    /\ Stored(ret.val, ArgFields, "e_machine", TRUE) = PyInt(243)
    /\ Stored(Flipped, ArgFields, "e_machine", FALSE) = PyInt(243)
    /\ ret.val[6] = 2 /\ Flipped[6] = 1

(***************************************************************************)
(* C4: p_flags is emitted exactly once; with is64bit it comes right after  *)
(* p_type and before p_offset; without it, right after p_memsz and right   *)
(* before p_align, not after p_type, and the output is 84 bytes with byte  *)
(* 4 equal to 1.                                                           *)
(***************************************************************************)
NameAt(F, i) == IF i \in 1..Len(F) THEN F[i].name ELSE "none"

C4_FlagsPosition ==
    Returned =>
        LET F  == ArgFields
            b  == ret.val
            pf == FieldAt(F, "p_flags")
            pt == FieldAt(F, "p_type")
        IN  /\ Cardinality({i \in 1..Len(F) : F[i].name = "p_flags"}) = 1
            /\ F[pf].len = 4
            /\ int_decode(FieldBytes(b, F, pf), args.be) = PyInt(5)
            /\ OffsetOf(F, pt) = (IF args.is64bit THEN 64 ELSE 52)
            /\ args.is64bit =>
                    /\ pf = pt + 1
                    /\ NameAt(F, pf + 1) = "p_offset"
                    /\ OffsetOf(F, pf) = 64 + 4
            /\ ~args.is64bit =>
                    /\ NameAt(F, pf - 1) = "p_memsz"
                    /\ NameAt(F, pf + 1) = "p_align"
                    /\ pf + 1 = Len(F)
                    /\ NameAt(F, pt + 1) = "p_offset"
                    /\ OffsetOf(F, pf) = 52 + 4 + 5 * 4
                    /\ Len(b) = 84
                    /\ b[5] = 1

C4_Witness ==
    /\ Returned
    /\ ~args.is64bit /\ ~args.be
    /\ args.target_id = PyInt(3) /\ args.instr_len = PyInt(7)
    /\ args.flags = PyInt(0)
    /\ Slice(ret.val, 76, 4) = <<5, 0, 0, 0>>
    /\ Slice(ret.val, 56, 4) = <<0, 0, 0, 0>>

(***************************************************************************)
(* C6: for every input, e_phnum is 1, p_type is 1 (PT_LOAD), p_flags is 5  *)
(* (PF_X | PF_R, the write bit 2 clear), p_vaddr is 0x10000, p_align is 2  *)
(* in both layouts, and e_shoff, e_shentsize, e_shnum and e_shstrndx are   *)
(* all 0.                                                                  *)
(***************************************************************************)
ArgStored(name) == Stored(ret.val, ArgFields, name, args.be)

\* the bit of weight w is set in the byte v
BitSet(v, w) == (v \div w) % 2 = 1

C6_FixedFields ==
    Returned =>
        /\ ArgStored("e_phnum") = PyInt(1)
        /\ ArgStored("p_type") = PyInt(1)
        /\ ArgStored("p_flags") = PyInt(5)
        /\ Len(ArgStored("p_flags").mag) = 1
        /\ BitSet(ArgStored("p_flags").mag[1], 1)
        /\ ~BitSet(ArgStored("p_flags").mag[1], 2)
        /\ BitSet(ArgStored("p_flags").mag[1], 4)
        /\ ArgStored("p_vaddr") = PyInt(65536)
        /\ ArgStored("p_align") = PyInt(2)
        /\ ArgStored("e_shoff") = PyInt(0)
        /\ ArgStored("e_shentsize") = PyInt(0)
        /\ ArgStored("e_shnum") = PyInt(0)
        /\ ArgStored("e_shstrndx") = PyInt(0)

C6_Witness ==
    /\ Returned
    /\ ~args.is64bit /\ args.be
    /\ args.target_id = PyInt(65535) /\ args.flags = PyInt(5)
    /\ args.instr_len = Sub(Shl1(32), PyInt(85))
    /\ ArgStored("p_align") = PyInt(2)
    /\ Slice(ret.val, 80, 4) = <<0, 0, 0, 2>>

(***************************************************************************)
(* C8: gen_headers(62, 4) with the defaults.                               *)
(***************************************************************************)
X86Call ==
    /\ Returned
    /\ args = [target_id |-> PyInt(62), instr_len |-> PyInt(4),
               is64bit |-> TRUE, be |-> FALSE, flags |-> PyInt(0)]

X86Head ==
    /\ Len(ret.val) = 120
    /\ ret.val[5] = 2
    /\ ret.val[6] = 1
    /\ Slice(ret.val, 18, 2) = <<62, 0>>

\* C8 as stated: 120 bytes, byte 4 is 0x02, byte 5 is 0x01, bytes 18-19
\* are 3E 00, and the last 4 bytes encode the alignment value 2.
C8_AsStated ==
    X86Call =>
        /\ X86Head
        /\ int_decode(Slice(ret.val, 116, 4), FALSE) = PyInt(2)

\* C8 amended: 120 bytes, byte 4 is 0x02, byte 5 is 0x01, bytes 18-19 are
\* 3E 00, and the last 8 bytes are 02 00 00 00 00 00 00 00, the alignment
\* value 2 as an 8-byte little-endian integer.
C8_Amended ==
    X86Call =>
        /\ X86Head
        /\ Slice(ret.val, 112, 8) = <<2, 0, 0, 0, 0, 0, 0, 0>>

C8_Witness ==
    /\ X86Call
    /\ Slice(ret.val, 116, 4) = <<0, 0, 0, 0>>
    /\ Slice(ret.val, 112, 4) = <<2, 0, 0, 0>>

(***************************************************************************)
(* C9: gen_headers returns if and only if 0 <= target_id < 2^16,           *)
(* 0 <= flags < 2^32 and 0 <= HEADER_SIZE + instr_len < 2^(8 * ADDR_SIZE)  *)
(* (120 and 8 for 64-bit, 84 and 4 for 32-bit), and raises otherwise; a    *)
(* negative instr_len not below -HEADER_SIZE is accepted; and every field  *)
(* returned decodes back to exactly the integer passed in.                 *)
(***************************************************************************)
SegmentSize ==
    Add(PyInt(IF args.is64bit THEN 120 ELSE 84), args.instr_len)

Encodable ==
    /\ InRange(args.target_id, 16)
    /\ InRange(args.flags, 32)
    /\ InRange(SegmentSize, IF args.is64bit THEN 64 ELSE 32)

C9_NoTruncation ==
    gpc # "call" =>
        /\ Returned <=> Encodable
        /\ ~Returned => ret.raised /\ gpc = "raised"
        /\ Returned =>
            /\ ~ret.raised
            /\ ArgStored("e_machine") = args.target_id
            /\ ArgStored("e_flags") = args.flags
            /\ ArgStored("p_filesz") = SegmentSize
            /\ ArgStored("p_memsz") = SegmentSize
        /\ ( /\ args.instr_len.neg
             /\ ~SegmentSize.neg
             /\ InRange(args.target_id, 16)
             /\ InRange(args.flags, 32) ) => Returned

C9_Witness ==
    /\ Returned
    /\ args.is64bit
    /\ args.instr_len = PyInt(-120)
    /\ args.target_id = PyInt(65535)
    /\ args.flags = Sub(Shl1(32), PyInt(1))
    /\ ArgStored("p_filesz") = PyInt(0)
    /\ ArgStored("e_flags").mag = <<255, 255, 255, 255>>

C9_WitnessRaised ==
    /\ gpc = "raised"
    /\ ~args.is64bit
    /\ args.instr_len = Sub(Shl1(32), PyInt(84))
    /\ InRange(args.target_id, 16)
    /\ InRange(args.flags, 32)

(***************************************************************************)
(* The driver's run, seen from outside.                                    *)
(***************************************************************************)
Done == pc = <<"done", 0>>

Aborted == pc = <<"aborted", 0>>

IsMismatchLine(l) == \E a \in Archs : l = MismatchLine(a)

\* the 'MISMATCH!' lines printed, in the order they were printed
MismatchLines == SelectSeq(out, IsMismatchLine)

\* the fixture of a is readable and differs from the bytes expected of it
Mismatching(a) == ~disk[a].raised /\ disk[a].val # Good(a)

MismatchingArch(a) == Mismatching(a)

\* the mismatching fixtures, in the order of the script
MismatchOrder == SelectSeq(Order, MismatchingArch)

(***************************************************************************)
(* C1: whatever fixtures match, the driver makes all five comparisons,     *)
(* prints exactly one 'MISMATCH!' line per mismatching fixture, in the     *)
(* fixed order, and exits with the number of mismatching fixtures: 0 if    *)
(* and only if all five match, never more than 5.                          *)
(***************************************************************************)
C1_CountsMismatches ==
    /\ pc[1] = "cmp" => compared = SubSeq(Order, 1, pc[2] - 1)
    /\ Done =>
        /\ compared = Order
        /\ Len(MismatchLines) = Len(MismatchOrder)
        /\ \A k \in 1..Len(MismatchOrder) :
                MismatchLines[k] = MismatchLine(MismatchOrder[k])
        /\ exit.via = "sys.exit"
        /\ exit.status = Cardinality({a \in Archs : Mismatching(a)})
        /\ exit.status <= 5
        /\ exit.status = 0 <=> \A a \in Archs : disk[a] = Return(Good(a))

C1_Witness ==
    /\ Done
    /\ Mismatching("arm64") /\ ~Mismatching("i386") /\ Mismatching("riscv64")
    /\ ~Mismatching("s390x") /\ Mismatching("x86_64")
    /\ exit.status = 3
    /\ MismatchLines = << MismatchLine("arm64"), MismatchLine("riscv64"),
                          MismatchLine("x86_64") >>
    /\ Len(out) = 5

C1_WitnessAll ==
    /\ Done
    /\ \A a \in Archs : Mismatching(a)
    /\ exit.status = 5

(***************************************************************************)
(* C5: each expected file is laid out as its header says: the first        *)
(* instruction byte is at the offset of the combined header size (120 or   *)
(* 84), e_entry is 0x10000 plus that offset, e_phoff is the file-header    *)
(* size (64 or 52), and p_filesz and p_memsz both equal the length of the  *)
(* expected file.                                                          *)
(***************************************************************************)
BlockFields(a) ==
    Fields(Block(a).target_id, PyInt(Len(Block(a).instr)), Block(a).is64bit,
           Block(a).flags)

InFile(a, name) == Stored(expected[a], BlockFields(a), name, Block(a).be)

HeaderLen(a) == IF Block(a).is64bit THEN 120 ELSE 84

C5_Layout ==
    \A a \in Archs :
        ExpectedName(a) \in bound =>
            /\ Len(expected[a]) = HeaderLen(a) + Len(Block(a).instr)
            /\ Slice(expected[a], HeaderLen(a), Len(Block(a).instr))
                    = Block(a).instr
            /\ InFile(a, "e_entry") = PyInt(65536 + HeaderLen(a))
            /\ InFile(a, "e_phoff")
                    = PyInt(IF Block(a).is64bit THEN 64 ELSE 52)
            /\ InFile(a, "p_filesz") = InFile(a, "p_memsz")
            /\ InFile(a, "p_filesz") = PyInt(Len(expected[a]))

C5_Witness ==
    /\ \A a \in Archs : ExpectedName(a) \in bound
    /\ Len(expected["i386"]) = 91
    /\ Len(expected["arm64"]) = 132
    /\ InFile("i386", "p_memsz") = PyInt(91)
    /\ InFile("s390x", "e_entry") = PyInt(65656)
    /\ expected["x86_64"][121] = 106

(***************************************************************************)
(* C7: with five fixtures equal to their expected bytes the driver prints  *)
(* nothing and exits 0; with one byte of one fixture changed it prints     *)
(* exactly one 'MISMATCH!' line, naming that architecture, and exits 1.    *)
(***************************************************************************)
\* the positions where the fixture of a differs from the expected bytes
ChangedAt(a) ==
    {i \in 1..Len(Good(a)) : disk[a].val[i] # Good(a)[i]}

\* the disk is the shipped one with a single byte of the fixture of a changed
OneByteChanged(a) ==
    /\ \A b \in Archs \ {a} : disk[b] = Return(Good(b))
    /\ ~disk[a].raised
    /\ Len(disk[a].val) = Len(Good(a))
    /\ Cardinality(ChangedAt(a)) = 1

C7_SingleByte ==
    Done =>
        /\ disk = GoodDisk => exit.status = 0 /\ out = <<>>
        /\ \A a \in Archs :
                OneByteChanged(a) =>
                    /\ MismatchLines = << MismatchLine(a) >>
                    /\ exit.status = 1

C7_Witness ==
    /\ Done
    /\ OneByteChanged("s390x")
    /\ ChangedAt("s390x") = {Len(Good("s390x"))}
    /\ out = << MismatchLine("s390x") >>
    /\ exit.status = 1

C7_WitnessHeader ==
    /\ Done
    /\ OneByteChanged("riscv64")
    /\ ChangedAt("riscv64") = {1}
    /\ exit.status = 1

(***************************************************************************)
(* C10: the five fixtures are read in the order arm64, i386, riscv64,      *)
(* s390x, x86_64 before the first comparison; a read that fails ends the   *)
(* run there with an uncaught error: nothing is compared, no 'MISMATCH!'   *)
(* line is printed, sys.exit(fails) is not reached, and the exit status is *)
(* not a count of mismatching fixtures.                                    *)
(***************************************************************************)
HasRead(i) == BytesName(Order[i]) \in bound

Unreadable(i) == disk[Order[i]].raised

C10_ReadsFirst ==
    /\ \A i \in 1..Len(Order) : HasRead(i) => \A j \in 1..i : HasRead(j)
    /\ (compared # <<>> \/ pc[1] = "cmp") => \A i \in 1..Len(Order) : HasRead(i)
    /\ (\E i \in 1..Len(Order) : Unreadable(i)) =>
            /\ compared = <<>>
            /\ out = <<>>
            /\ "fails" \notin bound
            /\ exit.via # "sys.exit"
            /\ pc[1] \in {"read", "expect", "aborted"}
    /\ Aborted =>
            /\ exit.via = "uncaught"
            /\ \E i \in 1..Len(Order) :
                    /\ Unreadable(i)
                    /\ \A j \in 1..Len(Order) : HasRead(j) <=> j < i
            /\ compared = <<>>
            /\ out = <<>>

C10_Witness ==
    /\ Aborted
    /\ Unreadable(3)
    /\ HasRead(1) /\ HasRead(2) /\ ~HasRead(3) /\ ~HasRead(4) /\ ~HasRead(5)
    /\ Mismatching("arm64") /\ Mismatching("i386")
    /\ out = <<>>
    /\ exit.status = 1

=============================================================================
